---- MODULE Spec2Model ----
(***************************************************************************)
(* StopHunterVS (src/StopHunter.py): liquidity zones from a daily window,  *)
(* stop-hunt signals from the latest intraday bar, and the market scanner. *)
(*                                                                         *)
(* Numbers.  Prices are integers in mills (1/1000 of a currency unit), so  *)
(* that round(x, 2) is a real conversion: its results are integers in      *)
(* cents (1 cent = 10 mills).  Quotients (vwap, confidence) are kept as    *)
(* exact fractions num/den with a nan flag; arithmetic is exact where the  *)
(* program uses IEEE doubles.                                              *)
(***************************************************************************)
EXTENDS Integers, Sequences, FiniteSets, TLC

VARIABLES
    liquidity_zones,  \* self.liquidity_zones: ticker -> zone            (line 10)
    nan_policy,       \* what the installed scipy does with a nan in `a` (line 124)
    pc,               \* "idle", "identify", "detect", "scan" or "crashed"
    op,               \* the call that completed last
    ticker,           \* the ticker argument of the current / last call
    intraday,         \* detect_stop_hunt's local `intraday`             (line 83)
    data,             \* identify_liquidity_pools's local `data`         (line 46)
    lz,               \* identify's return value: {} or {zone}           (lines 48, 57)
    signals,          \* detect_stop_hunt's return value                 (line 118)
    score,            \* _calculate_confidence's return value            (lines 124, 126)
    tickers,          \* scan_market's argument                          (line 72)
    idx,              \* position of scan_market's loop in `tickers`     (line 75)
    results,          \* scan_market's local `results`                   (line 74)
    evals             \* history: what each loop iteration of the scan got

vars == <<liquidity_zones, nan_policy, pc, op, ticker, intraday, data, lz,
          signals, score, tickers, idx, results, evals>>

----------------------------------------------------------------------------
(* Program constants *)

NumEdges == 20            \* np.linspace(lo, hi, 20): 20 edges, 19 bins
ConfidenceCap == 90       \* min(90, ...)
NearLowPermille == 1005   \* lz['recent_low'] * 1.005
NearHighPermille == 995   \* lz['recent_high'] * 0.995
StopLowPermille == 995    \* lz['recent_low'] * 0.995
StopHighPermille == 1005  \* lz['recent_high'] * 1.005
VolumeSpikeTenths == 18   \* intraday['Volume'].mean() * 1.8
MillsPerCent == 10        \* round(x, 2) of a price in mills

----------------------------------------------------------------------------
(* Bounds *)

MaxBars == 3      \* longest intraday series
MaxDaily == 3     \* longest daily window handed to the zone analysis
MaxTickers == 2   \* longest watchlist handed to scan_market

Symbols == {"A", "B"}

\* Grid of the detection checks: 0.5% of 0.200 is one mill, so the grid
\* holds prices on, inside and outside the 1.005 / 0.995 thresholds.
Prices == {200, 201, 202}
Volumes == {0, 1}

\* Grid of the clustering checks: a sub-cent low and ranges of 95 and 190
\* mills, so that the 19 bins are 5 or 10 mills wide.
ClusterPrices == {201, 296, 391}
ClusterVolumes == {1, 2}

----------------------------------------------------------------------------
(* Values *)

None == <<>>      \* get_data's None; a fetched series is never empty (line 16)

Bar(h, l, c, v) == [High |-> h, Low |-> l, Close |-> c, Volume |-> v]

BarsOver(P, V) ==
    {Bar(h, l, c, v) : <<h, l, c, v>> \in
        {q \in P \X P \X P \X V : q[2] <= q[3] /\ q[3] <= q[1]}}

SeqsUpTo(S, n) == UNION {[1..k -> S] : k \in 1..n}

Q(n, d) == [nan |-> FALSE, num |-> n, den |-> d]
NaN == [nan |-> TRUE, num |-> 0, den |-> 1]

\* round half to even of num/den (num >= 0, den > 0), as np.round does
RoundHalfEven(num, den) ==
    LET q == num \div den
        r == num % den
    IN  IF 2 * r < den THEN q
        ELSE IF 2 * r > den THEN q + 1
        ELSE IF q % 2 = 0 THEN q ELSE q + 1

\* round(x, 2) of x = num/den mills, in cents
Round2(num, den) == RoundHalfEven(num, den * MillsPerCent)

ColumnSum(df, W(_)) ==
    LET s[i \in 0..Len(df)] == IF i = 0 THEN 0 ELSE s[i - 1] + W(df[i])
    IN  s[Len(df)]

ColumnMin(df, F(_)) ==
    CHOOSE m \in {F(df[i]) : i \in 1..Len(df)} :
        \A i \in 1..Len(df) : m <= F(df[i])

ColumnMax(df, F(_)) ==
    CHOOSE m \in {F(df[i]) : i \in 1..Len(df)} :
        \A i \in 1..Len(df) : m >= F(df[i])

RecentLow(df) == ColumnMin(df, LAMBDA b : b.Low)
RecentHigh(df) == ColumnMax(df, LAMBDA b : b.High)

----------------------------------------------------------------------------
(* get_data, lines 12-21 *)

Ok(bars) == [status |-> "ok", bars |-> bars]
Empty == [status |-> "empty", bars |-> None]      \* yf.download: empty frame
Error == [status |-> "error", bars |-> None]      \* yf.download raises

Responses(feed) == {Ok(s) : s \in feed} \cup {Empty, Error}

Returned(v) == [exc |-> FALSE, val |-> v]
Raised == [exc |-> TRUE, val |-> None]

\* get_data without its try/except: the failure reaches the caller
get_data_uncaught(resp) ==
    IF resp.status = "ok" THEN Returned(resp.bars) ELSE Raised

get_data(resp) ==
    IF resp.status = "ok" THEN Returned(resp.bars) ELSE Returned(None)

----------------------------------------------------------------------------
(* What the data source serves *)

\* daily windows of the clustering checks: flat bars (High = Low = Close)
\* and bars that span the whole grid and close inside it
ClusterBars ==
    {b \in BarsOver(ClusterPrices, ClusterVolumes) :
        \/ b.High = b.Low
        \/ /\ \A p \in ClusterPrices : b.Low <= p /\ p <= b.High
           /\ b.Low < b.Close /\ b.Close < b.High}
ClusterWindows == SeqsUpTo(ClusterBars, MaxDaily)

\* intraday series of the detection checks: any latest bar after flat bars
\* (detection reads Close and Volume alone of the earlier bars)
Bars == BarsOver(Prices, Volumes)
IntradaySeries ==
    {s \in SeqsUpTo(Bars, MaxBars) :
        \A i \in 1..(Len(s) - 1) : s[i].High = s[i].Low}
\* daily windows of the detection checks: every single bar of the grid
DetectWindows == {<<b>> : b \in Bars}

\* what the source serves to the scanner checks: a quiet one-bar series, a
\* volume spike that closes at the high, a volume spike that closes between
\* low and high; a wide and a flat daily window
FeedIntraday ==
    { <<Bar(201, 201, 201, 1)>>,
      <<Bar(201, 201, 201, 0), Bar(202, 200, 202, 1)>>,
      <<Bar(201, 201, 201, 0), Bar(201, 200, 201, 1)>> }
FeedDaily == { <<Bar(202, 200, 201, 1)>>, <<Bar(201, 201, 201, 1)>> }

----------------------------------------------------------------------------
(* _calculate_vwap, lines 59-61 *)

calculate_vwap(df) ==
    LET pv == ColumnSum(df, LAMBDA b : b.Volume * (b.High + b.Low + b.Close))
        v  == ColumnSum(df, LAMBDA b : b.Volume)
    IN  IF v = 0 THEN NaN ELSE Q(pv, 3 * v)

----------------------------------------------------------------------------
(* _find_volume_clusters, lines 63-70 *)

Bins == 0..(NumEdges - 2)

\* edges[j] of np.linspace(lo, hi, NumEdges), times NumEdges - 1
EdgeScaled(lo, hi, j) == lo * (NumEdges - 1) + j * (hi - lo)

\* np.histogram's cumulative weight at edge j: the closes below the edge,
\* and for the last edge the closes at or below it
CumWeight(df, lo, hi, j) ==
    ColumnSum(df, LAMBDA b :
        IF \/ j < NumEdges - 1 /\ b.Close * (NumEdges - 1) < EdgeScaled(lo, hi, j)
           \/ j = NumEdges - 1 /\ b.Close * (NumEdges - 1) <= EdgeScaled(lo, hi, j)
        THEN b.Volume ELSE 0)

\* hist of np.histogram(df['Close'], bins=bins, weights=df['Volume']), as
\* the set of pairs <<bin, weight>>
Histogram(df) ==
    LET lo == RecentLow(df)
        hi == RecentHigh(df)
    IN  {<<i, CumWeight(df, lo, hi, i + 1) - CumWeight(df, lo, hi, i)>> : i \in Bins}

Heaviest(H) ==
    LET W == {p[2] : p \in H}
        m == CHOOSE x \in W : \A y \in W : y <= x
    IN  {p \in H : p[2] = m}

\* np.argsort(hist)[-3:]: the last three places of some ascending order of
\* the bins.  The default sort is not stable, so bins of equal weight may
\* come in any order.
ArgsortTails(H) ==
    UNION { UNION { { <<a[1], b[1], c[1]>> : a \in Heaviest(H \ {b, c}) } :
                    b \in Heaviest(H \ {c}) } :
            c \in Heaviest(H) }

\* round(edges[i + 1], 2): the upper edge of bin i, which the code does not report
ClusterEdgeUpper(lo, hi, i) == Round2(EdgeScaled(lo, hi, i + 1), NumEdges - 1)

\* round(edges[i], 2): edges[i] is the lower edge of bin i
ClusterEdge(lo, hi, i) == Round2(EdgeScaled(lo, hi, i), NumEdges - 1)

\* the possible return values; no operation of the try block raises on a
\* non-empty numeric frame, so the except branch returns [] for none of them
find_volume_clusters(df) ==
    LET lo == RecentLow(df)
        hi == RecentHigh(df)
        e == [i \in Bins |-> ClusterEdge(lo, hi, i)]
    IN  { <<e[t[1]], e[t[2]], e[t[3]]>> : t \in ArgsortTails(Histogram(df)) }

----------------------------------------------------------------------------
(* identify_liquidity_pools, lines 44-57 *)

ZoneOutcomes(df) ==
    { [recent_low |-> RecentLow(df),
       recent_high |-> RecentHigh(df),
       high_volume_nodes |-> nodes,
       vwap |-> calculate_vwap(df)] : nodes \in find_volume_clusters(df) }

\* ZoneOutcomes of the windows of the detection and scanner checks, worked
\* out once
KnownZones == {<<w, ZoneOutcomes(w)>> : w \in DetectWindows \cup FeedDaily}

Zones(df) ==
    IF \E p \in KnownZones : p[1] = df
    THEN (CHOOSE p \in KnownZones : p[1] = df)[2]
    ELSE ZoneOutcomes(df)

\* a cache that merges: it keeps the lower of the old and the new recent_low
store_merged(zones, t, z) ==
    [s \in DOMAIN zones \cup {t} |->
        IF s # t THEN zones[s]
        ELSE IF t \in DOMAIN zones /\ zones[t].recent_low < z.recent_low
        THEN [z EXCEPT !.recent_low = zones[t].recent_low]
        ELSE z]

\* a cache that evicts: it keeps the entry of the last symbol alone
store_evicting(zones, t, z) == [s \in {t} |-> z]

\* self.liquidity_zones[ticker] = {...}
Store(zones, t, z) ==
    [s \in DOMAIN zones \cup {t} |-> IF s = t THEN z ELSE zones[s]]

identify_liquidity_pools(zones, t, got) ==
    IF got.exc
    THEN {[exc |-> TRUE, zones |-> zones, lz |-> {}, data |-> None]}
    ELSE IF got.val = None
    THEN {[exc |-> FALSE, zones |-> zones, lz |-> {}, data |-> None]}
    ELSE {[exc |-> FALSE, zones |-> Store(zones, t, z),
           lz |-> {Store(zones, t, z)[t]}, data |-> got.val] :
             z \in Zones(got.val)}

----------------------------------------------------------------------------
(* _calculate_confidence, lines 120-126 *)

\* returns[i] < returns[j] and returns[i] <= returns[j] for i, j in 2..Len(df),
\* where returns = np.log(df['Close']).diff(): ln is increasing and the
\* closes are positive, so the log returns compare as the close ratios do
ReturnLess(df, i, j) == df[i].Close * df[j - 1].Close < df[j].Close * df[i - 1].Close
ReturnLeq(df, i, j) == df[i].Close * df[j - 1].Close <= df[j].Close * df[i - 1].Close

\* percentileofscore(returns, returns.iloc[-1]), kind 'rank', in percent.
\* returns[1] is always nan.  With one bar the score itself is nan and the
\* result is nan.  Otherwise scipy >= 1.9 (nan_policy 'propagate') answers
\* nan because `a` holds a nan, and older releases count the nan in n only.
percentileofscore(df, policy) ==
    LET n == Len(df)
        left == Cardinality({i \in 2..n : ReturnLess(df, i, n)})
        right == Cardinality({i \in 2..n : ReturnLeq(df, i, n)})
    IN  IF n < 2 \/ policy = "propagate" THEN NaN
        ELSE Q((right + left + (IF right > left THEN 1 ELSE 0)) * 50, n)

\* no statement of the scorer raises on a non-empty frame: exc is "none"
calculate_confidence(df, direction, policy) ==
    LET p == percentileofscore(df, policy)
    IN  [exc |-> "none",
         val |-> IF p.nan THEN NaN
                 ELSE IF direction = "down" THEN Q(p.num, 100 * p.den)
                 ELSE Q(100 * p.den - p.num, 100 * p.den)]

----------------------------------------------------------------------------
(* detect_stop_hunt, lines 81-118 *)

\* x * 100 without the cap
confidence_uncapped(x) == IF x.nan THEN NaN ELSE Q(100 * x.num, x.den)

\* min(90, x * 100): Python's min keeps 90 unless x * 100 < 90, so a nan
\* gives 90
confidence_of(x) ==
    IF x.nan THEN Q(ConfidenceCap, 1)
    ELSE IF 100 * x.num < ConfidenceCap * x.den THEN Q(100 * x.num, x.den)
    ELSE Q(ConfidenceCap, 1)

\* current['Volume'] > intraday['Volume'].mean() * 1.8
VolumeSpike(cur, intr) ==
    cur.Volume * Len(intr) * 10
        > VolumeSpikeTenths * ColumnSum(intr, LAMBDA b : b.Volume)

\* lines 95-97 with the low compared strictly
bear_trap_strict(cur, intr, z) ==
    /\ cur.Low * 1000 < z.recent_low * NearLowPermille
    /\ cur.Close > z.recent_low
    /\ VolumeSpike(cur, intr)

\* lines 95-97
bear_trap(cur, intr, z) ==
    /\ cur.Low * 1000 <= z.recent_low * NearLowPermille
    /\ cur.Close > z.recent_low
    /\ VolumeSpike(cur, intr)

\* lines 107-109
bull_trap(cur, intr, z) ==
    /\ cur.High * 1000 >= z.recent_high * NearHighPermille
    /\ cur.Close < z.recent_high
    /\ VolumeSpike(cur, intr)

\* round(lz['vwap'], 2); round keeps a nan
Target(z) ==
    IF z.vwap.nan THEN NaN ELSE Q(Round2(z.vwap.num, z.vwap.den), 1)

\* lines 91-118
evaluate(intr, z, policy) ==
    LET cur == intr[Len(intr)]
        bear == IF bear_trap(cur, intr, z)
                THEN << [type |-> "bear_trap",
                         entry |-> Round2(cur.Close, 1),
                         stop |-> Round2(z.recent_low * StopLowPermille, 1000),
                         target |-> Target(z),
                         confidence |->
                            confidence_of(calculate_confidence(intr, "down", policy).val)] >>
                ELSE << >>
        bull == IF bull_trap(cur, intr, z)
                THEN << [type |-> "bull_trap",
                         entry |-> Round2(cur.Close, 1),
                         stop |-> Round2(z.recent_high * StopHighPermille, 1000),
                         target |-> Target(z),
                         confidence |->
                            confidence_of(calculate_confidence(intr, "up", policy).val)] >>
                ELSE << >>
    IN  bear \o bull

\* gotI and gotD are what get_data gives for the intraday and the daily
\* request; the daily request is made only when the intraday one succeeded
detect_stop_hunt(zones, t, gotI, gotD, policy) ==
    IF gotI.exc
    THEN {[exc |-> TRUE, zones |-> zones, lz |-> {}, data |-> None,
           intraday |-> None, signals |-> << >>]}
    ELSE IF gotI.val = None
    THEN {[exc |-> FALSE, zones |-> zones, lz |-> {}, data |-> None,
           intraday |-> None, signals |-> << >>]}
    ELSE {[exc |-> o.exc, zones |-> o.zones, lz |-> o.lz, data |-> o.data,
           intraday |-> gotI.val,
           signals |-> IF o.exc \/ o.lz = {} THEN << >>
                       ELSE evaluate(gotI.val, CHOOSE z \in o.lz : TRUE, policy)] :
             o \in identify_liquidity_pools(zones, t, gotD)}

----------------------------------------------------------------------------
(* scan_market, lines 72-79 *)

EmptyMap == [s \in {} |-> << >>]

\* results[ticker] = signals without the test of line 77
scan_store_always(res, t, sigs) ==
    [s \in DOMAIN res \cup {t} |-> IF s = t THEN sigs ELSE res[s]]

\* if signals: results[ticker] = signals
scan_store(res, t, sigs) ==
    IF sigs # << >>
    THEN [s \in DOMAIN res \cup {t} |-> IF s = t THEN sigs ELSE res[s]]
    ELSE res

----------------------------------------------------------------------------
(* States and steps *)

NoScore == [exc |-> "none", val |-> NaN]

Fresh ==
    /\ liquidity_zones = EmptyMap             \* __init__, line 10
    /\ nan_policy \in {"propagate", "legacy"}
    /\ op = "none"
    /\ ticker = "A"
    /\ intraday = None
    /\ data = None
    /\ lz = {}
    /\ signals = << >>
    /\ score = NoScore
    /\ tickers = << >>
    /\ idx = 1
    /\ results = EmptyMap
    /\ evals = << >>

\* a call ends: by an exception that nothing catches, or by its return
Finish(name, t, o, sigs, intr) ==
    /\ ticker' = t
    /\ score' = NoScore
    /\ IF o.exc
       THEN /\ pc' = "crashed"
            /\ op' = "raise"
            /\ UNCHANGED <<liquidity_zones, intraday, data, lz, signals>>
       ELSE /\ pc' = "idle"
            /\ op' = name
            /\ liquidity_zones' = o.zones
            /\ data' = o.data
            /\ lz' = o.lz
            /\ intraday' = intr
            /\ signals' = sigs

NoScan == tickers' = << >> /\ idx' = 1 /\ results' = EmptyMap /\ evals' = << >>

\* analyzer.identify_liquidity_pools(t), as plot_liquidity calls it (line 33)
IdentifyCall(t, feed) ==
    /\ pc = "idle"
    /\ \E resp \in Responses(feed) :
         \E o \in identify_liquidity_pools(liquidity_zones, t, get_data(resp)) :
            Finish("identify", t, o, << >>, None)
    /\ NoScan
    /\ UNCHANGED nan_policy

\* identify_liquidity_pools from line 47 on, `data` being fetched
IdentifyResume ==
    /\ pc = "identify"
    /\ \E o \in identify_liquidity_pools(liquidity_zones, ticker, Returned(data)) :
         Finish("identify", ticker, o, << >>, None)
    /\ UNCHANGED <<nan_policy, tickers, idx, results, evals>>

\* analyzer.detect_stop_hunt(t)
DetectCall(t, feedI, feedD) ==
    /\ pc = "idle"
    /\ \E ri \in Responses(feedI), rd \in Responses(feedD) :
         \E o \in detect_stop_hunt(liquidity_zones, t, get_data(ri), get_data(rd),
                                   nan_policy) :
            Finish("detect", t, o, o.signals, o.intraday)
    /\ NoScan
    /\ UNCHANGED nan_policy

\* detect_stop_hunt from line 84 on, `intraday` being fetched
DetectResume ==
    /\ pc = "detect"
    /\ \E rd \in Responses(DetectWindows) :
         \E o \in detect_stop_hunt(liquidity_zones, ticker, Returned(intraday),
                                   get_data(rd), nan_policy) :
            Finish("detect", ticker, o, o.signals, o.intraday)
    /\ UNCHANGED <<nan_policy, tickers, idx, results, evals>>

\* self._calculate_confidence(intraday, direction) on a fetched series
ConfidenceCall(direction) ==
    /\ pc = "detect"
    /\ intraday # None
    /\ score' = calculate_confidence(intraday, direction, nan_policy)
    /\ op' = "confidence"
    /\ pc' = "idle"
    /\ UNCHANGED <<liquidity_zones, nan_policy, ticker, intraday, data, lz,
                   signals, tickers, idx, results, evals>>

\* analyzer.scan_market(ts): results = {}
ScanStart(ts) ==
    /\ pc = "idle"
    /\ pc' = "scan"
    /\ op' = "none"
    /\ tickers' = ts
    /\ idx' = 1
    /\ results' = EmptyMap
    /\ evals' = << >>
    /\ intraday' = None
    /\ data' = None
    /\ lz' = {}
    /\ signals' = << >>
    /\ score' = NoScore
    /\ UNCHANGED <<liquidity_zones, nan_policy, ticker>>

\* one pass of the loop, lines 75-78
ScanStep(feedI, feedD) ==
    /\ pc = "scan"
    /\ idx <= Len(tickers)
    /\ \E ri \in Responses(feedI), rd \in Responses(feedD) :
         \E o \in detect_stop_hunt(liquidity_zones, tickers[idx], get_data(ri),
                                   get_data(rd), nan_policy) :
            /\ ticker' = tickers[idx]
            /\ score' = NoScore
            /\ IF o.exc
               THEN /\ pc' = "crashed"
                    /\ op' = "raise"
                    /\ UNCHANGED <<liquidity_zones, intraday, data, lz, signals,
                                   idx, results, evals>>
               ELSE /\ pc' = "scan"
                    /\ op' = "none"
                    /\ liquidity_zones' = o.zones
                    /\ data' = o.data
                    /\ lz' = o.lz
                    /\ intraday' = o.intraday
                    /\ signals' = o.signals
                    /\ idx' = idx + 1
                    /\ results' = scan_store(results, tickers[idx], o.signals)
                    /\ evals' = Append(evals,
                                  [signals |-> o.signals,
                                   failed |-> ri.status # "ok" \/
                                              (o.intraday # None /\ rd.status # "ok")])
    /\ UNCHANGED <<nan_policy, tickers>>

\* return results, line 79
ScanReturn ==
    /\ pc = "scan"
    /\ idx > Len(tickers)
    /\ pc' = "idle"
    /\ op' = "scan"
    /\ UNCHANGED <<liquidity_zones, nan_policy, ticker, intraday, data, lz,
                   signals, score, tickers, idx, results, evals>>

----------------------------------------------------------------------------
(* Specifications *)

\* the analyzer as the program drives it
Init == Fresh /\ pc = "idle"

Identify == \E t \in Symbols : IdentifyCall(t, FeedDaily)
Detect == \E t \in Symbols : DetectCall(t, FeedIntraday, FeedDaily)
Scan == \E ts \in SeqsUpTo(Symbols, MaxTickers) \cup {<< >>} : ScanStart(ts)
Step == ScanStep(FeedIntraday, FeedDaily)

Next == Identify \/ Detect \/ Scan \/ Step \/ ScanReturn

Spec == Init /\ [][Next]_vars

\* the zone analysis on every daily window of the clustering grid
InitZone ==
    /\ liquidity_zones = EmptyMap
    /\ nan_policy = "propagate"
    /\ op = "none"
    /\ ticker = "A"
    /\ intraday = None
    /\ data \in ClusterWindows
    /\ lz = {}
    /\ signals = << >>
    /\ score = NoScore
    /\ tickers = << >>
    /\ idx = 1
    /\ results = EmptyMap
    /\ evals = << >>
    /\ pc = "identify"

NextZone == IdentifyResume

SpecZone == InitZone /\ [][NextZone]_vars

\* detection and scoring on every intraday series of the detection grid
InitDetect ==
    /\ liquidity_zones = EmptyMap
    /\ nan_policy \in {"propagate", "legacy"}
    /\ op = "none"
    /\ ticker = "A"
    /\ intraday \in IntradaySeries
    /\ data = None
    /\ lz = {}
    /\ signals = << >>
    /\ score = NoScore
    /\ tickers = << >>
    /\ idx = 1
    /\ results = EmptyMap
    /\ evals = << >>
    /\ pc = "detect"

ScoreDown == ConfidenceCall("down")
ScoreUp == ConfidenceCall("up")

NextDetect == DetectResume \/ ScoreDown \/ ScoreUp

SpecDetect == InitDetect /\ [][NextDetect]_vars

----------------------------------------------------------------------------
(* Properties of detection and scoring, under SpecDetect *)

\* detect_stop_hunt returned after both requests succeeded
Detected == op = "detect" /\ intraday # None /\ data # None

TypesOf(sigs) == {sigs[i].type : i \in DOMAIN sigs}
CountOf(sigs, type) == Cardinality({i \in DOMAIN sigs : sigs[i].type = type})

\* C1: the output holds a bear trap iff Low <= recentLow * 1.005 and
\* Close > recentLow and Volume > 1.8 * mean volume, and a bull trap iff
\* High >= recentHigh * 0.995 and Close < recentHigh and Volume > 1.8 * mean
\* volume; the two are decided independently, and the output never holds
\* two signals of one type.
C1_TrapConditions ==
    Detected =>
        LET cur == intraday[Len(intraday)]
            z == liquidity_zones[ticker]
            total == ColumnSum(intraday, LAMBDA b : b.Volume)
            spike == cur.Volume * Len(intraday) * 10 > 18 * total
        IN  /\ ("bear_trap" \in TypesOf(signals)) <=>
                 (/\ cur.Low * 1000 <= z.recent_low * 1005
                  /\ cur.Close > z.recent_low
                  /\ spike)
            /\ ("bull_trap" \in TypesOf(signals)) <=>
                 (/\ cur.High * 1000 >= z.recent_high * 995
                  /\ cur.Close < z.recent_high
                  /\ spike)
            /\ TypesOf(signals) \subseteq {"bear_trap", "bull_trap"}
            /\ CountOf(signals, "bear_trap") <= 1
            /\ CountOf(signals, "bull_trap") <= 1
            /\ Len(signals) <= 2

\* both traps fire, the bear trap with the low exactly on recentLow * 1.005
C1_Witness ==
    /\ Detected
    /\ Len(signals) = 2
    /\ intraday[Len(intraday)].Low * 1000 = liquidity_zones[ticker].recent_low * 1005

\* C2: the confidence of every emitted signal lies in [0, 90].
C2_ConfidenceRange ==
    \A i \in DOMAIN signals :
        LET c == signals[i].confidence
        IN  ~c.nan /\ 0 <= c.num /\ c.num <= 90 * c.den

\* a signal below the cap, from a series of three bars with a repeated close
C2_Witness ==
    /\ Detected
    /\ Len(intraday) = 3
    /\ intraday[1].Close = intraday[2].Close
    /\ \E i \in DOMAIN signals :
          signals[i].confidence.num < 90 * signals[i].confidence.den

\* C5: on a series of fewer than 2 bars the scorer fails with
\* InsufficientData and returns no confidence value.
C5_InsufficientData ==
    (op = "confidence" /\ Len(intraday) < 2) => score.exc = "InsufficientData"

----------------------------------------------------------------------------
(* Properties of the zone analysis, under SpecZone *)

\* identify_liquidity_pools returned a zone
Identified == op = "identify" /\ data # None

Nodes == liquidity_zones[ticker].high_volume_nodes

\* C6: for a window with recentLow = recentHigh, identify completes and the
\* zone's cluster list is empty.
C6_DegenerateEmpty ==
    (Identified /\ RecentLow(data) = RecentHigh(data)) => Nodes = << >>

\* C7: the cluster list has at most 3 levels and every level lies within
\* [recentLow, recentHigh] of the same zone.
C7_LevelsInRange ==
    Identified =>
        /\ Len(Nodes) <= 3
        /\ \A i \in DOMAIN Nodes :
              /\ liquidity_zones[ticker].recent_low <= Nodes[i] * 10
              /\ Nodes[i] * 10 <= liquidity_zones[ticker].recent_high

\* the accumulated volume of bin i when [lo, hi] is cut into k equal bins,
\* a close on an inner edge counting for the bin above it and a close on
\* hi for the last bin
BinWeight(df, lo, hi, k, i) ==
    ColumnSum(df, LAMBDA b :
        IF /\ lo * k + i * (hi - lo) <= b.Close * k
           /\ \/ b.Close * k < lo * k + (i + 1) * (hi - lo)
              \/ i = k - 1
        THEN b.Volume ELSE 0)

\* the bins of k whose edge, e(i), rounds to `level`
BinsAt(k, level, e(_)) == {i \in 0..(k - 1) : e(i) = level}

\* `nodes` are the levels e(a), e(b), e(c) of three distinct bins a, b, c
\* that are the three heaviest of k equal bins, in ascending order of
\* accumulated volume
ThreeHeaviest(df, lo, hi, k, nodes, e(_)) ==
    LET w == {<<i, BinWeight(df, lo, hi, k, i)>> : i \in 0..(k - 1)}
        W(i) == (CHOOSE p \in w : p[1] = i)[2]
    IN  /\ Len(nodes) = 3
        /\ \E a \in BinsAt(k, nodes[1], e), b \in BinsAt(k, nodes[2], e),
              c \in BinsAt(k, nodes[3], e) :
              /\ a # b /\ a # c /\ b # c
              /\ W(a) <= W(b) /\ W(b) <= W(c)
              /\ \A p \in w : p[1] \in {a, b, c} \/ p[2] <= W(a)

----------------------------------------------------------------------------
(* Properties of the scanner and the zone cache, under Spec *)

\* the positions of the scan that gave signals for symbol s
Hits(s) == {i \in 1..Len(evals) : tickers[i] = s /\ evals[i].signals # << >>}

Last(S) == CHOOSE i \in S : \A j \in S : j <= i

\* C3: the mapping of a scan holds a key s only if s is in the input and
\* the detector returned a non-empty sequence for s, and maps s to exactly
\* that sequence (for a symbol listed twice, to the latest such sequence); a
\* symbol whose detection yields no signals is not a key.
C3_ScanMapping ==
    (pc = "scan" \/ op = "scan") =>
        /\ DOMAIN results = {s \in Symbols : Hits(s) # {}}
        /\ \A s \in DOMAIN results : results[s] = evals[Last(Hits(s))].signals

\* scanning <<"A", "B">>, A without signals and B with one bear trap
C3_Witness ==
    /\ op = "scan"
    /\ tickers = <<"A", "B">>
    /\ DOMAIN results = {"B"}
    /\ Len(results["B"]) = 1
    /\ results["B"][1].type = "bear_trap"

\* C4: a failure while one symbol is evaluated is caught and the symbol is
\* skipped: the scan never aborts, every symbol of the input is evaluated,
\* and the scan returns its mapping.
C4_FailureIsolated ==
    /\ pc # "crashed"
    /\ pc = "scan" => Len(evals) = idx - 1
    /\ op = "scan" => Len(evals) = Len(tickers)
    /\ (pc = "scan" \/ op = "scan") =>
          \A i \in 1..Len(evals) : evals[i].failed => evals[i].signals = << >>

\* a scan returned a signal for a symbol evaluated after a failed one
C4_Witness ==
    /\ op = "scan"
    /\ \E i, j \in 1..Len(evals) :
          /\ i < j
          /\ evals[i].failed
          /\ evals[j].signals # << >>
          /\ tickers[j] \in DOMAIN results

\* C9: the cache is overwritten and never evicted: after a successful
\* identify for s the entry of s is exactly a zone computed from the series
\* that call fetched, the entry of s changes in no other way, the entries of
\* all other symbols are unchanged, and a cached symbol stays a key.
C9_CacheOverwritten ==
    [][ /\ data' # None =>
              /\ ticker' \in DOMAIN liquidity_zones'
              /\ liquidity_zones'[ticker'] \in Zones(data')
        /\ \A s \in DOMAIN liquidity_zones :
              /\ s \in DOMAIN liquidity_zones'
              /\ liquidity_zones'[s] # liquidity_zones[s] =>
                    s = ticker' /\ data' # None
        /\ DOMAIN liquidity_zones' \subseteq DOMAIN liquidity_zones \cup {ticker'}
      ]_vars

\* identify returned a zone for A while B holds another zone
C9_Witness ==
    /\ op = "identify"
    /\ ticker = "A"
    /\ data # None
    /\ DOMAIN liquidity_zones = {"A", "B"}
    /\ liquidity_zones["A"] # liquidity_zones["B"]

\* a step that evaluates a symbol: a call of detect_stop_hunt, directly or
\* by a pass of the scan's loop
DetectStep == op' = "detect" \/ (pc = "scan" /\ idx' = idx + 1)

\* C10, as claimed: evaluating a symbol leaves the zone cache as it was.
C10_CacheUntouched ==
    [][DetectStep => liquidity_zones' = liquidity_zones]_vars

\* C10, amended: evaluating a symbol changes no state of the analyzer but
\* the cache entry of that symbol, and that only when both requests
\* succeeded: the entry is then a zone computed from the daily series the
\* call fetched, and the signals are those of the intraday series and that
\* zone; when a request fails the cache is unchanged and no signal is
\* returned.
C10_WritesOwnEntryOnly ==
    [][DetectStep =>
        /\ nan_policy' = nan_policy
        /\ \A s \in DOMAIN liquidity_zones \ {ticker'} :
              s \in DOMAIN liquidity_zones' /\ liquidity_zones'[s] = liquidity_zones[s]
        /\ DOMAIN liquidity_zones' \subseteq DOMAIN liquidity_zones \cup {ticker'}
        /\ (intraday' = None \/ data' = None) =>
              liquidity_zones' = liquidity_zones /\ signals' = << >>
        /\ (intraday' # None /\ data' # None) =>
              /\ liquidity_zones'[ticker'] \in Zones(data')
              /\ signals' = evaluate(intraday', liquidity_zones'[ticker'], nan_policy)
      ]_vars

\* detect_stop_hunt returned signals for one symbol while the other is cached
C10_Witness ==
    /\ op = "detect"
    /\ data # None
    /\ signals # << >>
    /\ DOMAIN liquidity_zones = {"A", "B"}

====
